---------------------------- MODULE Spec2Model ----------------------------
(***************************************************************************)
(* A model of the tier-3 agents of ECE_Core:                               *)
(*   DistillerCore  (ece/agents/tier3/distiller/distiller_core.cpp)        *)
(*   QLearningCore  (ece/agents/tier3/qlearning/qlearning_core.cpp)        *)
(* A std::string is a sequence of character codes (ASCII), so that         *)
(* substring search, tokenisation, regex matching and the lexicographic    *)
(* order of std::sort are computed as the library computes them.           *)
(***************************************************************************)
EXTENDS Integers, Sequences, FiniteSets, TLC

VARIABLES
    pc,             \* position of the caller: "call", "scan", "done", ...
    text,           \* const std::string& text
    max_length,     \* int max_length of summarize_text
    summary,        \* return value of summarize_text
    entities,       \* std::map<std::string, std::vector<std::string>>
    relationships,  \* return value of extract_relationships
    q_table_,       \* QLearningCore::q_table_
    q_before,       \* the Q-table when the last call was entered
    sizes,          \* sizes of the four vectors of the batch call in flight
    batch,          \* elements the last batch call has applied: <<s, a, r, ns>>
    error,          \* exception the last call threw, or "none"
    updates,        \* number of Q-value assignments made so far
    scanned         \* categories of entity_patterns_ the extraction loop has done

vars == <<pc, text, max_length, summary, entities, relationships,
          q_table_, q_before, sizes, batch, error, updates, scanned>>

distillerVars == <<text, max_length, summary, entities, relationships, scanned>>
qlearningVars == <<q_table_, q_before, sizes, batch, error, updates>>

(***************************************************************************)
(* Bounds of the model.                                                    *)
(***************************************************************************)
MaxTextLen == 4      \* characters of a text given to summarize_text
MaxTokens == 3       \* largest max_length given to summarize_text
MaxChunks == 3       \* words of a text given to extract_entities
MaxRelTextLen == 3   \* characters of a text given to extract_relationships
MaxEntities == 3     \* entries of an entity mapping given to extract_relationships
MaxBatch == 2        \* largest vector given to batch_update_q_values
MaxUpdates == 2      \* Q-value assignments in one run

(***************************************************************************)
(* Characters.                                                             *)
(***************************************************************************)
Space == 32
Newline == 10
Period == 46
Quote == 34
Comma == 44
Slash == 47
Colon == 58
Less == 60
Greater == 62
At == 64
Underscore == 95
Bar == 124

Ascii == 0 .. 127
Upper == 65 .. 90
Lower == 97 .. 122
Digit == 48 .. 57
\* std::isspace in the "C" locale: \t \n \v \f \r and space
WhiteSpace == (9 .. 13) \cup {Space}
\* a word character of ECMAScript's \b: [A-Za-z0-9_]
WordChar == Upper \cup Lower \cup Digit \cup {Underscore}

(***************************************************************************)
(* std::string helpers.                                                    *)
(***************************************************************************)
RECURSIVE Join(_, _)
\* the strings of ss, with sep between every two of them
Join(ss, sep) ==
    IF ss = <<>> THEN <<>>
    ELSE IF Len(ss) = 1 THEN ss[1]
    ELSE ss[1] \o sep \o Join(Tail(ss), sep)

\* std::string::find(needle) != npos
Contains(hay, needle) ==
    \E i \in 1 .. (Len(hay) - Len(needle) + 1) :
        SubSeq(hay, i, i + Len(needle) - 1) = needle

\* std::string operator< : the first differing character decides, then length
StrLess(a, b) ==
    \/ \E i \in 1 .. Len(a) :
          /\ i <= Len(b)
          /\ a[i] < b[i]
          /\ \A j \in 1 .. (i - 1) : a[j] = b[j]
    \/ /\ Len(a) < Len(b)
       /\ \A j \in 1 .. Len(a) : a[j] = b[j]

\* std::find(v.begin(), v.end(), x) != v.end()
InVector(v, x) == \E i \in 1 .. Len(v) : v[i] = x

\* every sequence over S of length at most n
SeqsUpTo(S, n) == UNION {[1 .. k -> S] : k \in 0 .. n}

(***************************************************************************)
(* DistillerCore::summarize_text                                           *)
(***************************************************************************)
\* characters of the texts given to summarize_text: two kinds of white
\* space and two letters
SumAlphabet == {Space, Newline, 97, 98}

RECURSIVE SkipSpace(_, _)
\* operator>> first skips white space: the first position from p on that
\* holds none, Len(t) + 1 when there is no such position
SkipSpace(t, p) ==
    IF p <= Len(t) /\ t[p] \in WhiteSpace THEN SkipSpace(t, p + 1) ELSE p

RECURSIVE TokenEnd(_, _)
\* operator>> then reads up to the next white space or the end
TokenEnd(t, p) ==
    IF p <= Len(t) /\ t[p] \notin WhiteSpace THEN TokenEnd(t, p + 1) ELSE p

RECURSIVE ReadTokens(_, _)
\* while (iss >> token) tokens.push_back(token), reading from position p
ReadTokens(t, p) ==
    LET b == SkipSpace(t, p)
        e == TokenEnd(t, b)
    IN  IF b > Len(t) THEN <<>>
        ELSE <<SubSeq(t, b, e - 1)>> \o ReadTokens(t, e)

Tokenize(t) == ReadTokens(t, 1)

\* the test that returns the text as it is
FitsBoundStrict(n, max) == n < max
FitsBound(n, max) == n <= max

\* the condition of the truncation loop
LoopContinuesInclusive(i, max, n) == i <= max /\ i < n
LoopContinuesUnbounded(i, max, n) == i < n
LoopContinues(i, max, n) == i < max /\ i < n

RECURSIVE Truncate(_, _, _, _)
\* the truncation loop, entered with index i (counted from 0) and the
\* summary built so far
Truncate(tokens, max, i, sofar) ==
    IF LoopContinues(i, max, Len(tokens))
    THEN Truncate(tokens, max, i + 1,
                  (IF i > 0 THEN sofar \o <<Space>> ELSE sofar) \o tokens[i + 1])
    ELSE sofar

summarize_text(t, max) ==
    LET tokens == Tokenize(t)
    IN  IF FitsBound(Len(tokens), max) THEN t
        ELSE Truncate(tokens, max, 0, <<>>)

InitSummarize ==
    /\ pc = "call"
    /\ text \in SeqsUpTo(SumAlphabet, MaxTextLen)
    /\ max_length \in -2 .. MaxTokens
    /\ summary = <<>>
    /\ entities = <<>>
    /\ relationships = <<>>
    /\ q_table_ = <<>>
    /\ q_before = <<>>
    /\ sizes = <<>>
    /\ batch = <<>>
    /\ error = "none"
    /\ updates = 0
    /\ scanned = 0

SummarizeText ==
    /\ pc = "call"
    /\ summary' = summarize_text(text, max_length)
    /\ pc' = "done"
    /\ UNCHANGED <<text, max_length, entities, relationships, scanned>>
    /\ UNCHANGED qlearningVars

NextSummarize == SummarizeText

SpecSummarize == InitSummarize /\ [][NextSummarize]_vars

\* the number of whitespace-delimited tokens of s: the positions where a
\* maximal run of non-space characters starts
TokenCount(s) ==
    Cardinality({i \in 1 .. Len(s) :
        /\ s[i] \notin WhiteSpace
        /\ (i = 1 \/ s[i - 1] \in WhiteSpace)})

\* C1: for every text and every bound of at least 1, the summary has at
\* most max_length whitespace-delimited tokens.
SummaryBound ==
    (pc = "done" /\ max_length >= 1) => TokenCount(summary) <= max_length

\* a text of more tokens than the bound was cut to exactly the bound
SummaryBoundWitness ==
    /\ pc = "done"
    /\ max_length >= 1
    /\ TokenCount(text) > max_length
    /\ TokenCount(summary) = max_length

\* C2: a text whose token count is within the bound is returned as it is,
\* character for character.
SummaryIdentity ==
    (pc = "done" /\ TokenCount(text) <= max_length) => summary = text

\* a text within the bound that a re-join of its tokens would change
SummaryIdentityWitness ==
    /\ pc = "done"
    /\ TokenCount(text) <= max_length
    /\ TokenCount(text) >= 2
    /\ text # Join(Tokenize(text), <<Space>>)
    /\ summary = text

\* C3 as stated: every non-positive bound gives the empty summary, for
\* every text, empty and whitespace-only texts included.
NonPositiveBoundEmpty ==
    (pc = "done" /\ max_length <= 0) => summary = <<>>

\* C3 as amended: a non-positive bound gives the empty summary, except that
\* a text of no token is returned as it is under the bound 0.
NonPositiveBoundEmptyOrText ==
    (pc = "done" /\ max_length <= 0) =>
        IF max_length = 0 /\ TokenCount(text) = 0
        THEN summary = text
        ELSE summary = <<>>

\* a text of tokens under a negative bound gave the empty summary
NonPositiveBoundWitness ==
    /\ pc = "done"
    /\ max_length < 0
    /\ TokenCount(text) > 0
    /\ summary = <<>>

(***************************************************************************)
(* std::regex (ECMAScript grammar, the default).  A pattern is a tree; the *)
(* executor is the backtracking one: Ends gives the positions where a      *)
(* match of the pattern begun at p can end, in the order the backtracking  *)
(* search finds them (the left alternative first, the longer repetition    *)
(* first), and the first of them is the match.                             *)
(***************************************************************************)
Cls(S) == [k |-> "cls", s |-> S]
Ch(c) == Cls({c})
WB == [k |-> "wb"]
Cat(rs) == [k |-> "cat", rs |-> rs]
Alt(rs) == [k |-> "alt", rs |-> rs]
\* r{lo,hi}, greedy
Rep(r, lo, hi) == [k |-> "rep", r |-> r, lo |-> lo, hi |-> hi, many |-> FALSE]
\* r{lo,}, greedy
RepMin(r, lo) == [k |-> "rep", r |-> r, lo |-> lo, hi |-> lo, many |-> TRUE]
Plus(r) == RepMin(r, 1)
Star(r) == RepMin(r, 0)
Opt(r) == Rep(r, 0, 1)
\* the characters of a literal, one after the other
Lit(cs) == Cat([i \in 1 .. Len(cs) |-> Ch(cs[i])])

\* \b at position p (the character at p is the next one to read): exactly
\* one of the characters before and after is a word character
WordBoundary(t, p) ==
    (p > 1 /\ t[p - 1] \in WordChar) # (p <= Len(t) /\ t[p] \in WordChar)

RECURSIVE Ends(_, _, _)
RECURSIVE CatEnds(_, _, _, _)
RECURSIVE CatFrom(_, _, _, _, _)
RECURSIVE AltEnds(_, _, _, _)
RECURSIVE RepEnds(_, _, _, _)
RECURSIVE RepFrom(_, _, _, _, _, _)

Ends(re, t, p) ==
    CASE re.k = "cls" -> IF p <= Len(t) /\ t[p] \in re.s THEN <<p + 1>> ELSE <<>>
      [] re.k = "wb"  -> IF WordBoundary(t, p) THEN <<p>> ELSE <<>>
      [] re.k = "cat" -> CatEnds(re.rs, 1, t, p)
      [] re.k = "alt" -> AltEnds(re.rs, 1, t, p)
      [] re.k = "rep" -> RepEnds(re, t, p, 0)

\* rs[i], rs[i + 1], ... one after the other from p
CatEnds(rs, i, t, p) ==
    IF i > Len(rs) THEN <<p>>
    ELSE CatFrom(rs, i, t, Ends(rs[i], t, p), 1)

CatFrom(rs, i, t, es, j) ==
    IF j > Len(es) THEN <<>>
    ELSE CatEnds(rs, i + 1, t, es[j]) \o CatFrom(rs, i, t, es, j + 1)

\* rs[i] | rs[i + 1] | ... at p
AltEnds(rs, i, t, p) ==
    IF i > Len(rs) THEN <<>>
    ELSE Ends(rs[i], t, p) \o AltEnds(rs, i + 1, t, p)

\* a repetition that has matched n times and stands at p: one more time
\* first, then stopping here
RepEnds(re, t, p, n) ==
    (IF re.many \/ n < re.hi
     THEN RepFrom(re, t, p, n, Ends(re.r, t, p), 1)
     ELSE <<>>)
    \o (IF n >= re.lo THEN <<p>> ELSE <<>>)

RepFrom(re, t, p, n, es, j) ==
    IF j > Len(es) THEN <<>>
    ELSE (IF es[j] > p THEN RepEnds(re, t, es[j], n + 1) ELSE <<>>)
         \o RepFrom(re, t, p, n, es, j + 1)

RECURSIVE RegexSearch(_, _, _)
\* std::regex_search from position from: the leftmost start that matches,
\* as <<start, end>>, or <<>> when there is no match
RegexSearch(re, t, from) ==
    IF from > Len(t) + 1 THEN <<>>
    ELSE LET es == Ends(re, t, from)
         IN  IF es # <<>> THEN <<from, es[1]>>
             ELSE RegexSearch(re, t, from + 1)

RECURSIVE RegexIterate(_, _, _)
\* std::sregex_iterator: the matches from position from on, each search
\* starting where the match before ended (no pattern of the catalog
\* matches the empty string)
RegexIterate(re, t, from) ==
    LET m == RegexSearch(re, t, from)
    IN  IF m = <<>> \/ m[2] = m[1] THEN <<>>
        ELSE <<SubSeq(t, m[1], m[2] - 1)>> \o RegexIterate(re, t, m[2])

(***************************************************************************)
(* DistillerCore::initialize_patterns                                      *)
(***************************************************************************)
\* [A-Z][a-z]+
CapWord == Cat(<<Cls(Upper), Plus(Cls(Lower))>>)

\* \b[A-Z][a-z]+ [A-Z][a-z]+\b
PersonPattern == Cat(<<WB, CapWord, Ch(Space), CapWord, WB>>)

\* \b[A-Z][A-Z]+\b|\b[A-Z][a-z]+ [A-Z][a-z]+\b
OrganizationPattern ==
    Alt(<<Cat(<<WB, Cls(Upper), Plus(Cls(Upper)), WB>>),
          Cat(<<WB, CapWord, Ch(Space), CapWord, WB>>)>>)

\* St|Ave|Rd|Blvd|Dr|Ln|Ct|Pl
StreetType ==
    Alt(<<Lit(<<83, 116>>), Lit(<<65, 118, 101>>), Lit(<<82, 100>>),
          Lit(<<66, 108, 118, 100>>), Lit(<<68, 114>>), Lit(<<76, 110>>),
          Lit(<<67, 116>>), Lit(<<80, 108>>)>>)

\* \b[A-Z][a-z]+(?: [A-Z][a-z]+)*, [A-Z]{2}\b
\* |\b[A-Z][a-z]+(?: [A-Z][a-z]*)* (?:St|Ave|Rd|Blvd|Dr|Ln|Ct|Pl)\b
LocationPattern ==
    Alt(<<Cat(<<WB, CapWord, Star(Cat(<<Ch(Space), CapWord>>)),
                Ch(Comma), Ch(Space), Rep(Cls(Upper), 2, 2), WB>>),
          Cat(<<WB, CapWord,
                Star(Cat(<<Ch(Space), Cls(Upper), Star(Cls(Lower))>>)),
                Ch(Space), StreetType, WB>>)>>)

\* Jan|Feb|Mar|Apr|May|Jun|Jul|Aug|Sep|Oct|Nov|Dec
MonthName ==
    Alt(<<Lit(<<74, 97, 110>>), Lit(<<70, 101, 98>>), Lit(<<77, 97, 114>>),
          Lit(<<65, 112, 114>>), Lit(<<77, 97, 121>>), Lit(<<74, 117, 110>>),
          Lit(<<74, 117, 108>>), Lit(<<65, 117, 103>>), Lit(<<83, 101, 112>>),
          Lit(<<79, 99, 116>>), Lit(<<78, 111, 118>>), Lit(<<68, 101, 99>>)>>)

\* \b(?:Jan|...|Dec) \d{1,2},? \d{4}\b|\b\d{1,2}/\d{1,2}/\d{4}\b
DatePattern ==
    Alt(<<Cat(<<WB, MonthName, Ch(Space), Rep(Cls(Digit), 1, 2),
                Opt(Ch(Comma)), Ch(Space), Rep(Cls(Digit), 4, 4), WB>>),
          Cat(<<WB, Rep(Cls(Digit), 1, 2), Ch(Slash), Rep(Cls(Digit), 1, 2),
                Ch(Slash), Rep(Cls(Digit), 4, 4), WB>>)>>)

\* \b[A-Za-z0-9._%+-]+@[A-Za-z0-9.-]+\.[A-Z|a-z]{2,}\b
EmailPattern ==
    Cat(<<WB,
          Plus(Cls(Upper \cup Lower \cup Digit \cup {Period, Underscore, 37, 43, 45})),
          Ch(At),
          Plus(Cls(Upper \cup Lower \cup Digit \cup {Period, 45})),
          Ch(Period),
          RepMin(Cls(Upper \cup Lower \cup {Bar}), 2),
          WB>>)

\* [^\s<>"]
UrlChar == Cls(Ascii \ (WhiteSpace \cup {Less, Greater, Quote}))

\* https?://[^\s<>"]+|www\.[^\s<>"]+
UrlPattern ==
    Alt(<<Cat(<<Lit(<<104, 116, 116, 112>>), Opt(Ch(115)), Lit(<<Colon, Slash, Slash>>),
                Plus(UrlChar)>>),
          Cat(<<Lit(<<119, 119, 119>>), Ch(Period), Plus(UrlChar)>>)>>)

\* the characters of a category name
Chars(name) ==
    CASE name = "person" -> <<112, 101, 114, 115, 111, 110>>
      [] name = "organization" ->
            <<111, 114, 103, 97, 110, 105, 122, 97, 116, 105, 111, 110>>
      [] name = "location" -> <<108, 111, 99, 97, 116, 105, 111, 110>>
      [] name = "date" -> <<100, 97, 116, 101>>
      [] name = "email" -> <<101, 109, 97, 105, 108>>
      [] name = "url" -> <<117, 114, 108>>

\* entity_patterns_ after the constructor
entity_patterns_ ==
    [person |-> PersonPattern,
     organization |-> OrganizationPattern,
     location |-> LocationPattern,
     date |-> DatePattern,
     email |-> EmailPattern,
     url |-> UrlPattern]

RECURSIVE MapOrder(_)
\* the keys of a std::map<std::string, ...> in the order a range-for
\* visits them: increasing by std::string's operator<
MapOrder(keys) ==
    IF keys = {} THEN <<>>
    ELSE LET first == CHOOSE k \in keys :
                        \A o \in keys \ {k} : StrLess(Chars(k), Chars(o))
         IN  <<first>> \o MapOrder(keys \ {first})

(***************************************************************************)
(* DistillerCore::extract_entities                                         *)
(***************************************************************************)
\* the words the texts given to extract_entities are made of:
\* "Al Bo ", "IBM ", "Al, NY ", "1/2/2020 ", "a@b.co ", "www.x "
Vocabulary ==
    {<<65, 108, 32, 66, 111, 32>>,
     <<73, 66, 77, 32>>,
     <<65, 108, 44, 32, 78, 89, 32>>,
     <<49, 47, 50, 47, 50, 48, 50, 48, 32>>,
     <<97, 64, 98, 46, 99, 111, 32>>,
     <<119, 119, 119, 46, 120, 32>>}

EntityTexts == {Join(ws, <<>>) : ws \in SeqsUpTo(Vocabulary, MaxChunks)}

\* the body of the scan loop: a match is appended unless it is listed
PushAlways(matches, match) == Append(matches, match)
PushUnique(matches, match) ==
    IF InVector(matches, match) THEN matches ELSE Append(matches, match)

RECURSIVE CollectMatches(_, _, _)
\* the scan loop over the iterator's matches ms, from the i-th on
CollectMatches(ms, i, matches) ==
    IF i > Len(ms) THEN matches
    ELSE CollectMatches(ms, i + 1, PushUnique(matches, ms[i]))

\* entities[entity_type] = matches
StoreUnlessEmpty(m, key, value) ==
    IF value = <<>> THEN m
    ELSE [k \in DOMAIN m \cup {key} |-> IF k = key THEN value ELSE m[k]]
MapAssign(m, key, value) ==
    [k \in DOMAIN m \cup {key} |-> IF k = key THEN value ELSE m[k]]

\* an empty std::map
EmptyMap == [k \in {} |-> <<>>]

InitEntities ==
    /\ pc = "scan"
    /\ text \in EntityTexts
    /\ entities = EmptyMap
    /\ scanned = 0
    /\ max_length = 0
    /\ summary = <<>>
    /\ relationships = <<>>
    /\ q_table_ = <<>>
    /\ q_before = <<>>
    /\ sizes = <<>>
    /\ batch = <<>>
    /\ error = "none"
    /\ updates = 0

\* one round of the loop over entity_patterns_: the next category in map
\* order is scanned and its list stored
ScanCategory ==
    /\ pc = "scan"
    /\ scanned < Cardinality(DOMAIN entity_patterns_)
    /\ LET entity_type == MapOrder(DOMAIN entity_patterns_)[scanned + 1]
           pattern == entity_patterns_[entity_type]
           matches == CollectMatches(RegexIterate(pattern, text, 1), 1, <<>>)
       IN  entities' = MapAssign(entities, entity_type, matches)
    /\ scanned' = scanned + 1
    /\ UNCHANGED <<pc, text, max_length, summary, relationships>>
    /\ UNCHANGED qlearningVars

\* the loop is over: return entities
ReturnEntities ==
    /\ pc = "scan"
    /\ scanned = Cardinality(DOMAIN entity_patterns_)
    /\ pc' = "done"
    /\ UNCHANGED <<text, max_length, summary, entities, relationships, scanned>>
    /\ UNCHANGED qlearningVars

NextEntities == ScanCategory \/ ReturnEntities

SpecEntities == InitEntities /\ [][NextEntities]_vars

\* the index of the first occurrence of x in the sequence ms (0: none)
FirstIndex(ms, x) ==
    IF InVector(ms, x)
    THEN CHOOSE i \in 1 .. Len(ms) :
            ms[i] = x /\ \A j \in 1 .. (i - 1) : ms[j] # x
    ELSE 0

\* C6: the list of every category holds no string twice, and holds the
\* matched strings in the order of their first match in the scan of the
\* text.
EntitiesUniqueInFirstMatchOrder ==
    \A c \in DOMAIN entities :
        LET scan == RegexIterate(entity_patterns_[c], text, 1)
            list == entities[c]
        IN  /\ \A i, j \in 1 .. Len(list) : i < j => list[i] # list[j]
            /\ \A i \in 1 .. Len(list) : InVector(scan, list[i])
            /\ \A i \in 1 .. Len(scan) : InVector(list, scan[i])
            /\ \A i, j \in 1 .. Len(list) :
                  i < j => FirstIndex(scan, list[i]) < FirstIndex(scan, list[j])

\* a category whose scan met a string, then another, then the first again
EntitiesUniqueWitness ==
    /\ pc = "done"
    /\ \E c \in DOMAIN entities :
          LET scan == RegexIterate(entity_patterns_[c], text, 1)
          IN  /\ Len(scan) = 3
              /\ scan[1] = scan[3]
              /\ scan[1] # scan[2]
              /\ entities[c] = <<scan[1], scan[2]>>

\* C7: the mapping extract_entities returns has exactly the six categories
\* of the catalog as its keys, whatever the text.
EntitiesAllCategories ==
    pc = "done" =>
        DOMAIN entities =
            {"person", "organization", "location", "date", "email", "url"}

\* the empty text gave six categories, each with an empty list
EntitiesAllCategoriesWitness ==
    /\ pc = "done"
    /\ text = <<>>
    /\ Cardinality(DOMAIN entities) = 6
    /\ \A c \in DOMAIN entities : entities[c] = <<>>

(***************************************************************************)
(* DistillerCore::extract_relationships                                    *)
(***************************************************************************)
\* "RELATED_TO_"
RelatedTo == <<82, 69, 76, 65, 84, 69, 68, 95, 84, 79, 95>>

\* the position of the first delim from p on, Len(t) + 1 when there is none
RECURSIVE FindDelim(_, _, _)
FindDelim(t, p, delim) ==
    IF p <= Len(t) /\ t[p] # delim THEN FindDelim(t, p + 1, delim) ELSE p

RECURSIVE GetLinesDropTail(_, _)
\* as GetLines, but a piece that no period ends is dropped
GetLinesDropTail(t, p) ==
    LET q == FindDelim(t, p, Period)
    IN  IF q > Len(t) THEN <<>>
        ELSE <<SubSeq(t, p, q - 1)>> \o GetLinesDropTail(t, q + 1)

RECURSIVE GetLines(_, _)
\* while (std::getline(iss, sentence, '.')) sentences.push_back(sentence),
\* reading from position p: getline fails when no character is left, and
\* otherwise takes the characters up to the next period (consumed) or to
\* the end
GetLines(t, p) ==
    IF p > Len(t) THEN <<>>
    ELSE LET q == FindDelim(t, p, Period)
         IN  <<SubSeq(t, p, q - 1)>> \o GetLines(t, q + 1)

WholeText(t) == <<t>>
SplitSentences(t) == GetLines(t, 1)

RECURSIVE Flatten(_, _, _)
\* the (category, entity) pairs of an entity mapping in the order the two
\* nested range-for loops visit them: categories in map order, the
\* entities of a category in vector order
Flatten(m, keys, i) ==
    IF i > Len(keys) THEN <<>>
    ELSE [j \in 1 .. Len(m[keys[i]]) |-> <<keys[i], m[keys[i]][j]>>]
         \o Flatten(m, keys, i + 1)

\* the test of the outer loops: entity1 is in the sentence
Mentions(sentence, entity1) == Contains(sentence, entity1)

\* the test of the inner loops: another entity that is in the sentence
RelatesToSelf(sentence, entity1, entity2) == Contains(sentence, entity2)
Relates(sentence, entity1, entity2) ==
    entity2 # entity1 /\ Contains(sentence, entity2)

RECURSIVE InnerLoop(_, _, _, _)
\* the loops over (entity_type2, entity2), from the j-th pair on, for the
\* i-th pair as (entity_type1, entity1)
InnerLoop(sentence, pairs, i, j) ==
    IF j > Len(pairs) THEN <<>>
    ELSE (IF Relates(sentence, pairs[i][2], pairs[j][2])
          THEN <<<<pairs[i][2], RelatedTo \o Chars(pairs[j][1]), pairs[j][2]>>>>
          ELSE <<>>)
         \o InnerLoop(sentence, pairs, i, j + 1)

RECURSIVE OuterLoop(_, _, _)
\* the loops over (entity_type1, entity1), from the i-th pair on
OuterLoop(sentence, pairs, i) ==
    IF i > Len(pairs) THEN <<>>
    ELSE (IF Mentions(sentence, pairs[i][2])
          THEN InnerLoop(sentence, pairs, i, 1)
          ELSE <<>>)
         \o OuterLoop(sentence, pairs, i + 1)

RECURSIVE SentenceLoop(_, _, _)
\* the loop over the sentences, from the k-th on
SentenceLoop(sentences, pairs, k) ==
    IF k > Len(sentences) THEN <<>>
    ELSE OuterLoop(sentences[k], pairs, 1) \o SentenceLoop(sentences, pairs, k + 1)

\* the vector relationships before it is sorted
FindRelationships(t, m) ==
    SentenceLoop(SplitSentences(t), Flatten(m, MapOrder(DOMAIN m), 1), 1)

\* operator< of std::tuple<std::string, std::string, std::string>
TupleLess(a, b) ==
    \/ StrLess(a[1], b[1])
    \/ /\ ~StrLess(b[1], a[1])
       /\ \/ StrLess(a[2], b[2])
          \/ /\ ~StrLess(b[2], a[2])
             /\ StrLess(a[3], b[3])

RECURSIVE Insert(_, _)
\* x put into the sorted vector v, before the first element greater than x
Insert(v, x) ==
    IF v = <<>> THEN <<x>>
    ELSE IF TupleLess(x, v[1]) THEN <<x>> \o v
    ELSE <<v[1]>> \o Insert(Tail(v), x)

RECURSIVE SortVector(_)
\* std::sort(begin, end): the elements in increasing order (elements that
\* compare equal are equal, so the result does not depend on the algorithm)
SortVector(v) ==
    IF v = <<>> THEN <<>> ELSE Insert(SortVector(Tail(v)), v[1])

KeepAll(v) == v
RECURSIVE Unique(_)
\* erase(std::unique(begin, end), end): of every run of equal neighbours
\* the first is kept
Unique(v) ==
    IF Len(v) <= 1 THEN v
    ELSE IF v[1] = v[2] THEN Unique(Tail(v))
    ELSE <<v[1]>> \o Unique(Tail(v))

extract_relationships(t, m) == Unique(SortVector(FindRelationships(t, m)))

\* characters of the texts given to extract_relationships
RelAlphabet == {97, 98, Period}

\* the entities of the mappings given to extract_relationships:
\* "a", "b", "a.b" and the empty string
RelEntities == {<<97>>, <<98>>, <<97, Period, 98>>, <<>>}

RelCategories == {"person", "url"}

RECURSIVE BuildMap(_, _)
\* the mapping a caller builds by m[category].push_back(entity) for the
\* pairs of ps in turn, from the mapping m
BuildMap(ps, m) ==
    IF ps = <<>> THEN m
    ELSE LET key == ps[1][1]
             old == IF key \in DOMAIN m THEN m[key] ELSE <<>>
         IN  BuildMap(Tail(ps), MapAssign(m, key, Append(old, ps[1][2])))

EntityMappings ==
    {BuildMap(ps, EmptyMap) :
        ps \in SeqsUpTo(RelCategories \X RelEntities, MaxEntities)}

InitRelationships ==
    /\ pc = "call"
    /\ text \in SeqsUpTo(RelAlphabet, MaxRelTextLen)
    /\ entities \in EntityMappings
    /\ relationships = <<>>
    /\ scanned = 0
    /\ max_length = 0
    /\ summary = <<>>
    /\ q_table_ = <<>>
    /\ q_before = <<>>
    /\ sizes = <<>>
    /\ batch = <<>>
    /\ error = "none"
    /\ updates = 0

ExtractRelationships ==
    /\ pc = "call"
    /\ relationships' = extract_relationships(text, entities)
    /\ pc' = "done"
    /\ UNCHANGED <<text, max_length, summary, entities, scanned>>
    /\ UNCHANGED qlearningVars

NextRelationships == ExtractRelationships

SpecRelationships == InitRelationships /\ [][NextRelationships]_vars

\* the entities of some category list of the mapping m
Listed(m) == UNION {{m[c][i] : i \in 1 .. Len(m[c])} : c \in DOMAIN m}

\* e occurs in s as a substring
Occurs(s, e) ==
    \E i \in 1 .. Len(s) + 1 : \E j \in (i - 1) .. Len(s) : SubSeq(s, i, j) = e

\* the sentences of t: the pieces between periods, the piece after the
\* last period (the whole text when it has no period) included
Sentences(t) ==
    {SubSeq(t, i, j - 1) : <<i, j>> \in
        {ij \in (1 .. Len(t) + 1) \X (1 .. Len(t) + 1) :
            /\ ij[1] <= ij[2]
            /\ ij[1] = 1 \/ t[ij[1] - 1] = Period
            /\ ij[2] = Len(t) + 1 \/ t[ij[2]] = Period
            /\ \A k \in ij[1] .. (ij[2] - 1) : t[k] # Period}}

Elements(v) == {v[i] : i \in 1 .. Len(v)}

\* C4: subject and object of every triple are listed in the mapping, and
\* differ as strings, whether or not the mapping came from the text.
RelationshipsWellFormed ==
    pc = "done" =>
        \A i \in 1 .. Len(relationships) :
            /\ relationships[i][1] \in Listed(entities)
            /\ relationships[i][3] \in Listed(entities)
            /\ relationships[i][1] # relationships[i][3]

\* triples came from a mapping that lists an entity the text does not
\* hold, so a mapping extract_entities did not give for the text
RelationshipsWellFormedWitness ==
    /\ pc = "done"
    /\ Len(relationships) >= 2
    /\ \E e \in Listed(entities) : ~Occurs(text, e)

\* the lexicographic order on (subject, predicate, object)
LexLess(a, b) ==
    \E k \in 1 .. 3 :
        /\ \A j \in 1 .. (k - 1) : a[j] = b[j]
        /\ StrLess(a[k], b[k])

\* C5: the triples returned are strictly increasing in the lexicographic
\* order on (subject, predicate, object): sorted, and none twice.
RelationshipsStrictlySorted ==
    pc = "done" =>
        \A i \in 1 .. (Len(relationships) - 1) :
            LexLess(relationships[i], relationships[i + 1])

\* the loops produced a triple twice and triples out of order, and several
\* triples are returned
RelationshipsSortedWitness ==
    /\ pc = "done"
    /\ Len(relationships) >= 2
    /\ LET raw == FindRelationships(text, entities)
       IN  /\ \E i, j \in 1 .. Len(raw) : i < j /\ raw[i] = raw[j]
           /\ \E i \in 1 .. (Len(raw) - 1) : LexLess(raw[i + 1], raw[i])

\* C8: the triples returned are exactly the (e1, "RELATED_TO_" + type2, e2)
\* with e1 listed in some category, e2 listed in category type2, e1 # e2,
\* and both substrings of one sentence of the text.
RelationshipsExact ==
    pc = "done" =>
        Elements(relationships) =
            {<<e1, RelatedTo \o Chars(type2), e2>> :
                <<e1, type2, e2>> \in
                    {x \in Listed(entities) \X (DOMAIN entities) \X Listed(entities) :
                        /\ x[3] \in Elements(entities[x[2]])
                        /\ x[1] # x[3]
                        /\ \E s \in Sentences(text) :
                              Occurs(s, x[1]) /\ Occurs(s, x[3])}}

\* two entities are linked in the piece after the last period, and two
\* entities of the text are not linked, being in no sentence together
RelationshipsExactWitness ==
    /\ pc = "done"
    /\ relationships # <<>>
    /\ \E i \in 1 .. Len(text) :
          /\ text[i] = Period
          /\ \A k \in (i + 1) .. Len(text) : text[k] # Period
          /\ \E r \in Elements(relationships) :
                /\ r[1] # <<>>
                /\ Occurs(SubSeq(text, i + 1, Len(text)), r[1])
                /\ Occurs(SubSeq(text, i + 1, Len(text)), r[3])
                /\ ~Occurs(SubSeq(text, 1, i - 1), r[1])

\* C10: no triple has a subject or an object with a period in it.
RelationshipsNoPeriod ==
    pc = "done" =>
        \A i \in 1 .. Len(relationships) :
            /\ Period \notin Elements(relationships[i][1])
            /\ Period \notin Elements(relationships[i][3])

\* a listed entity with a period occurs in the text, and triples are
\* returned
RelationshipsNoPeriodWitness ==
    /\ pc = "done"
    /\ relationships # <<>>
    /\ \E e \in Listed(entities) : Period \in Elements(e) /\ Occurs(text, e)

(***************************************************************************)
(* QLearningCore.  A Q-value is a double; the model holds it as a whole    *)
(* number of units of 1 / Unit.  With learning rate and discount factor    *)
(* 1/2 and whole rewards, every value the first MaxUpdates assignments     *)
(* can produce is such a number, and the double arithmetic is exact on it. *)
(***************************************************************************)
state_size_ == 2
action_size_ == 2
\* learning_rate_ and discount_factor_, as <<numerator, denominator>>
learning_rate_ == <<1, 2>>
discount_factor_ == <<1, 2>>

Unit == (learning_rate_[2] * discount_factor_[2]) ^ MaxUpdates

\* the rewards given to the updates
Rewards == {0, 1}
\* the state and action indices given to the updates: the valid ones, one
\* below and one above
StateArgs == -1 .. state_size_
ActionArgs == -1 .. action_size_

\* q_table_.resize(state_size_, std::vector<double>(action_size_, 0.0))
InitialTable == [s \in 0 .. (state_size_ - 1) |-> [a \in 0 .. (action_size_ - 1) |-> 0]]

\* the three range checks of update_q_value: the exception thrown, if any
RangeError(state, action, next_state) ==
    \/ state < 0 \/ state >= state_size_
    \/ action < 0 \/ action >= action_size_
    \/ next_state < 0 \/ next_state >= state_size_

\* *std::max_element(row.begin(), row.end())
MaxElement(row) == CHOOSE v \in {row[a] : a \in DOMAIN row} :
                      \A a \in DOMAIN row : row[a] <= v

\* the assignment of update_q_value, for arguments in range:
\* new_q = current_q + learning_rate_ * (reward + discount_factor_ * max_next_q - current_q)
NewTable(q, state, action, reward, next_state) ==
    LET current_q == q[state][action]
        max_next_q == MaxElement(q[next_state])
        new_q == current_q +
                 (learning_rate_[1] *
                    (reward * Unit * discount_factor_[2]
                     + discount_factor_[1] * max_next_q
                     - current_q * discount_factor_[2]))
                 \div (learning_rate_[2] * discount_factor_[2])
    IN  [q EXCEPT ![state][action] = new_q]

\* the size check of batch_update_q_values
SizesDifferButRewards(n_states, n_actions, n_rewards, n_next_states) ==
    n_actions # n_states \/ n_next_states # n_states
SizesDiffer(n_states, n_actions, n_rewards, n_next_states) ==
    n_actions # n_states \/ n_rewards # n_states \/ n_next_states # n_states

NoSizes == <<>>

\* the arguments <<state, action, reward, next_state>> explored that pass
\* the range checks, and whether some explored arguments fail them
ArgsInRange ==
    {x \in StateArgs \X ActionArgs \X Rewards \X StateArgs :
        ~RangeError(x[1], x[2], x[4])}
SomeArgsOutOfRange ==
    \E x \in StateArgs \X ActionArgs \X Rewards \X StateArgs :
        RangeError(x[1], x[2], x[4])

\* the sizes <<states, actions, rewards, next_states>> explored that pass
\* the size check, and whether some explored sizes fail it
SizesAccepted ==
    {n \in (0 .. MaxBatch) \X (0 .. MaxBatch) \X (0 .. MaxBatch) \X (0 .. MaxBatch) :
        ~SizesDiffer(n[1], n[2], n[3], n[4])}
SomeSizesRejected ==
    \E n \in (0 .. MaxBatch) \X (0 .. MaxBatch) \X (0 .. MaxBatch) \X (0 .. MaxBatch) :
        SizesDiffer(n[1], n[2], n[3], n[4])

InitQLearning ==
    /\ pc = "ready"
    /\ q_table_ = InitialTable
    /\ q_before = InitialTable
    /\ sizes = NoSizes
    /\ batch = <<>>
    /\ error = "none"
    /\ updates = 0
    /\ text = <<>>
    /\ max_length = 0
    /\ summary = <<>>
    /\ entities = <<>>
    /\ relationships = <<>>
    /\ scanned = 0

\* a call of update_q_value by the owner of the object, with arguments out
\* of range: it throws
UpdateQValueThrows ==
    /\ pc = "ready"
    /\ SomeArgsOutOfRange
    /\ error' = "out_of_range"
    /\ q_before' = q_table_
    /\ batch' = <<>>
    /\ UNCHANGED <<pc, sizes, q_table_, updates>>
    /\ UNCHANGED distillerVars

\* a call of update_q_value with arguments in range: it assigns (the runs
\* explored make at most MaxUpdates assignments)
UpdateQValue ==
    /\ pc = "ready"
    /\ updates < MaxUpdates
    /\ \E x \in ArgsInRange :
          q_table_' = NewTable(q_table_, x[1], x[2], x[3], x[4])
    /\ error' = "none"
    /\ updates' = updates + 1
    /\ q_before' = q_table_
    /\ batch' = <<>>
    /\ UNCHANGED <<pc, sizes>>
    /\ UNCHANGED distillerVars

\* batch_update_q_values is entered with four vectors whose sizes fail the
\* size check: it throws
BatchUpdateRejects ==
    /\ pc = "ready"
    /\ SomeSizesRejected
    /\ error' = "invalid_argument"
    /\ q_before' = q_table_
    /\ batch' = <<>>
    /\ UNCHANGED <<pc, sizes, q_table_, updates>>
    /\ UNCHANGED distillerVars

\* batch_update_q_values is entered with four vectors whose sizes pass the
\* size check: the loop is entered
BatchUpdateEnter ==
    /\ pc = "ready"
    /\ \E n \in SizesAccepted : sizes' = n
    /\ error' = "none"
    /\ pc' = "loop"
    /\ q_before' = q_table_
    /\ batch' = <<>>
    /\ UNCHANGED <<q_table_, updates>>
    /\ UNCHANGED distillerVars

\* one round of the loop, update_q_value on the elements at index
\* Len(batch) of the four vectors, which are out of range: it throws, and
\* the exception leaves batch_update_q_values
BatchUpdateThrows ==
    /\ pc = "loop"
    /\ Len(batch) < sizes[1]
    /\ SomeArgsOutOfRange
    /\ error' = "out_of_range"
    /\ pc' = "ready"
    /\ sizes' = NoSizes
    /\ UNCHANGED <<q_table_, q_before, batch, updates>>
    /\ UNCHANGED distillerVars

\* one round of the loop on elements in range: update_q_value assigns
BatchUpdateStep ==
    /\ pc = "loop"
    /\ Len(batch) < sizes[1]
    /\ updates < MaxUpdates
    /\ \E x \in ArgsInRange :
          /\ q_table_' = NewTable(q_table_, x[1], x[2], x[3], x[4])
          /\ batch' = Append(batch, x)
    /\ updates' = updates + 1
    /\ UNCHANGED <<pc, sizes, error, q_before>>
    /\ UNCHANGED distillerVars

\* the loop is over: batch_update_q_values returns
BatchUpdateReturn ==
    /\ pc = "loop"
    /\ Len(batch) = sizes[1]
    /\ pc' = "ready"
    /\ sizes' = NoSizes
    /\ UNCHANGED <<q_table_, q_before, batch, error, updates>>
    /\ UNCHANGED distillerVars

NextQLearning ==
    \/ UpdateQValueThrows
    \/ UpdateQValue
    \/ BatchUpdateRejects
    \/ BatchUpdateEnter
    \/ BatchUpdateThrows
    \/ BatchUpdateStep
    \/ BatchUpdateReturn

SpecQLearning == InitQLearning /\ [][NextQLearning]_vars

RECURSIVE ApplyAll(_, _)
\* the table q after the updates of es, one after the other
ApplyAll(q, es) ==
    IF es = <<>> THEN q
    ELSE ApplyAll(NewTable(q, es[1][1], es[1][2], es[1][3], es[1][4]), Tail(es))

\* C9 as stated: whenever a call throws, for unequal sizes or for an element
\* out of range, the Q-table is the one the call was entered with.
ThrowLeavesTable ==
    error # "none" => q_table_ = q_before

\* C9 as amended: the loop is entered only with four vectors of one size,
\* and a call that throws for unequal sizes leaves the Q-table as it was; a
\* call that throws for an element out of range leaves the Q-table with
\* the updates of the elements before that one applied, in order.
ThrowKeepsAppliedPrefix ==
    /\ pc = "loop" => \A k \in 1 .. 4 : sizes[k] = sizes[1]
    /\ error = "invalid_argument" => (q_table_ = q_before /\ batch = <<>>)
    /\ error = "out_of_range" => q_table_ = ApplyAll(q_before, batch)

\* a batch call threw at its second element, after updates before the
\* call, and the update of its first element is in the table
ThrowKeepsAppliedPrefixWitness ==
    /\ pc = "ready"
    /\ error = "out_of_range"
    /\ Len(batch) = 1
    /\ q_before # InitialTable
    /\ q_table_ # q_before

=============================================================================
